---- MODULE Spec2Model ----
(***************************************************************************)
(* Model of the retrieval-augmented pipeline of tech-support-assistant:    *)
(* the chunker (RAG._chunk_text) and the ingestor (RAG.ingest) over a      *)
(* small file system and a vector index.                                   *)
(*                                                                         *)
(* A text is a sequence of one-character strings.  Offsets are 0-based as  *)
(* in the source; TLA+ sequences are 1-based, so offset i is element i+1.  *)
(***************************************************************************)
EXTENDS Integers, Sequences, FiniteSets, TLC

\* ------------------------------------------------------------------------
\* Bounds
\* ------------------------------------------------------------------------
MaxLen == 4        \* longest text handed to the chunker
MaxCfg == 3        \* CHUNK_SIZE and CHUNK_OVERLAP in the environment lie in -MaxCfg..MaxCfg
MaxRuns == 2       \* ingest calls in one behaviour

Whitespace == {" "}
Alphabet == {"a", " "}

RECURSIVE TextsUpTo(_)
TextsUpTo(n) ==
    IF n = 0 THEN {<<>>}
    ELSE LET shorter == TextsUpTo(n - 1)
         IN  shorter \cup {Append(t, c) : t \in {s \in shorter : Len(s) = n - 1}, c \in Alphabet}

Texts == TextsUpTo(MaxLen)
CfgRange == (0 - MaxCfg)..MaxCfg

\* ------------------------------------------------------------------------
\* State
\* ------------------------------------------------------------------------
VARIABLES
    env_chunk_size,     \* CHUNK_SIZE in the environment
    env_chunk_overlap,  \* CHUNK_OVERLAP in the environment
    chunk_size,         \* RAG.chunk_size
    chunk_overlap,      \* RAG.chunk_overlap
    text,               \* the argument of _chunk_text
    ck,                 \* the loop state of _chunk_text
    cpc,                \* where the chunker is: new, ready, loop, done
    result,             \* the list _chunk_text returned
    result_starts,      \* the offset each returned chunk was cut at
    fs_present,         \* the entries below the folder "docs"
    fs_content,         \* the text of each regular file below "docs"
    collection_name,    \* RAG.collection_name
    rag_collection,     \* RAG._collection: NoName, or the collection it refers to
    index,              \* the vector index: collection name -> (id -> record)
    ipc,                \* where ingest is
    folder_path,        \* ingest's argument
    progress_callback,  \* whether ingest was given a progress callback
    text_files,         \* ingest's local text_files
    i,                  \* ingest's loop index (1-based, as enumerate(text_files, 1))
    content,            \* ingest's local content
    chunks,             \* ingest's local chunks
    embeddings,         \* ingest's local embeddings
    total_chunks,       \* ingest's local total_chunks
    raised,             \* the exception ingest raised, "none" if none
    progress,           \* the calls of the progress callback in this run
    reads,              \* the files opened in this run
    file_status,        \* how each processed file of this run ended
    run,                \* number of ingest calls so far
    last_run,           \* what the last finished ingest call left behind
    prev_run,           \* last_run as it was when the current ingest call began
    returned,           \* what the ingest call returned, Pending until it returns
    id_sources,         \* for each id ever generated, the source files it was generated for
    cancel_requested,   \* whether the task running ingest was asked to cancel
    cancel_at,          \* the loop index at the time of that request, 0 if none
    client,             \* whether Agent.client is configured (GITHUB_TOKEN set)
    confidence_threshold,          \* Agent.confidence_threshold, in tenths
    uncertain_distance_threshold,  \* Agent.uncertain_distance_threshold, in tenths
    qpc,                \* where the query path is: idle, search, searched, assess, generate, done
    caller,             \* who called RAG.search: "agent" (Agent.message) or "direct"
    asked,              \* number of message / search calls so far
    results,            \* what RAG.search returned
    search_exc,         \* the exception that left RAG.search, "none" if none
    search_outcome,     \* how the search went inside RAG.search
    references,         \* message's local references
    context_docs,       \* message's local context_docs
    retrieved_chunks,   \* message's local retrieved_chunks
    confidence,         \* message's local confidence, in tenths
    min_distance,       \* message's local min_distance, in tenths
    is_uncertain,       \* message's local is_uncertain
    escalated,          \* message's local escalated
    system_prompt,      \* the system prompt handed to client.complete
    completions,        \* the system prompts of the client.complete calls of this message call
    gen_outcome,        \* how the generation went: none, no_client, ok, failed
    response,           \* message's local response
    log,                \* the records log_query appended during the current message call
    msg_returned,       \* the dictionary message returned, Pending until it returns
    cli_typed,          \* the collection name as the user types it, a sequence of characters
    cli_collections,    \* the namespaces that exist in the index the commands talk to
    cli_ingest_ns,      \* the namespace ingest_command wrote to, <<>> before it ran
    cli_last,           \* the last command: its name, the namespace it used, whether it found it
    model_cache,        \* Embedding._model_cache: model identifier -> model instance
    loads,              \* how often SentenceTransformer(name) has returned, per identifier
    constructions,      \* number of Embedding(...) calls so far
    epc,                \* where each thread is inside Embedding.__init__
    ename,              \* self.model_name of the object each thread constructs
    emodel              \* self.model of the object each thread constructs

chunk_vars == <<env_chunk_size, env_chunk_overlap, text, ck, cpc, result, result_starts>>
config_vars == <<chunk_size, chunk_overlap>>
fs_vars == <<fs_present, fs_content>>
rag_vars == <<collection_name, rag_collection, index>>
ingest_vars == <<ipc, folder_path, progress_callback, text_files, i, content, chunks,
                 embeddings, total_chunks, raised, progress, reads, file_status, run,
                 last_run, prev_run, returned, id_sources, cancel_requested, cancel_at>>
cancel_vars == <<cancel_requested, cancel_at>>
cli_vars == <<cli_typed, cli_collections, cli_ingest_ns, cli_last>>
embed_vars == <<model_cache, loads, constructions, epc, ename, emodel>>

agent_vars == <<client, confidence_threshold, uncertain_distance_threshold>>
search_vars == <<results, search_exc, search_outcome>>
message_vars == <<references, context_docs, retrieved_chunks, confidence, min_distance,
                  is_uncertain, escalated, system_prompt, completions, gen_outcome, response, log,
                  msg_returned>>
query_vars == <<agent_vars, qpc, caller, asked, search_vars, message_vars>>

vars == <<chunk_vars, config_vars, fs_vars, rag_vars, ingest_vars, query_vars, cli_vars, embed_vars>>

\* ------------------------------------------------------------------------
\* Python primitives used by the chunker
\* ------------------------------------------------------------------------
Min(a, b) == IF a < b THEN a ELSE b
Max(a, b) == IF a > b THEN a ELSE b

\* Python's index normalisation for a slice bound: negative counts from the end,
\* and the result is clamped into 0..len.
SliceIndex(k, len) == IF k < 0 THEN Max(len + k, 0) ELSE Min(k, len)

\* text[a:b]
PySlice(s, a, b) ==
    LET lo == SliceIndex(a, Len(s))
        hi == SliceIndex(b, Len(s))
    IN  IF hi > lo THEN SubSeq(s, lo + 1, hi) ELSE <<>>

\* chunk.strip(): what is left after removing leading and trailing whitespace.
RECURSIVE LStrip(_)
LStrip(s) == IF s /= <<>> /\ Head(s) \in Whitespace THEN LStrip(Tail(s)) ELSE s

RECURSIVE RStrip(_)
RStrip(s) ==
    IF s /= <<>> /\ s[Len(s)] \in Whitespace THEN RStrip(SubSeq(s, 1, Len(s) - 1)) ELSE s

Strip(s) == RStrip(LStrip(s))

\* ------------------------------------------------------------------------
\* RAG._chunk_text
\* ------------------------------------------------------------------------
\* start += self.chunk_size - self.chunk_overlap
NextStartSkipping(start, size, overlap) == start + size + overlap

NextStart(start, size, overlap) == start + size - overlap

\* The loop state: the locals start and chunks, whether the loop was left by
\* break, and (for stating the properties) the offset each kept chunk was cut
\* at and every window the loop looked at.
ChunkLoopInit == [start |-> 0, chunks |-> <<>>, broke |-> FALSE,
                  starts |-> <<>>, windows |-> <<>>]

\* while start < text_length (and not left by break)
ChunkLoopRuns(st, T) == ~st.broke /\ st.start < Len(T)

\* One iteration of the while loop.
ChunkIterateNoBreak(st, T, size, overlap) ==
    LET end   == st.start + size
        chunk == PySlice(T, st.start, end)
        keep  == Strip(chunk) /= <<>>
        next  == NextStart(st.start, size, overlap)
    IN  [start   |-> next,
         chunks  |-> IF keep THEN Append(st.chunks, chunk) ELSE st.chunks,
         broke   |-> FALSE,
         starts  |-> IF keep THEN Append(st.starts, st.start) ELSE st.starts,
         windows |-> Append(st.windows, chunk)]

ChunkIterate(st, T, size, overlap) ==
    LET end   == st.start + size
        chunk == PySlice(T, st.start, end)
        keep  == Strip(chunk) /= <<>>
        next  == NextStart(st.start, size, overlap)
    IN  [start   |-> next,
         chunks  |-> IF keep THEN Append(st.chunks, chunk) ELSE st.chunks,
         broke   |-> next <= 0,
         starts  |-> IF keep THEN Append(st.starts, st.start) ELSE st.starts,
         windows |-> Append(st.windows, chunk)]

\* return chunks if chunks else [text]
ChunkResultNoFallback(cs, T) == cs

ChunkResult(cs, T) == IF cs /= <<>> THEN cs ELSE <<T>>

RECURSIVE ChunkLoop(_, _, _, _)
ChunkLoop(st, T, size, overlap) ==
    IF ChunkLoopRuns(st, T) THEN ChunkLoop(ChunkIterate(st, T, size, overlap), T, size, overlap)
    ELSE st

\* The whole function, as ingest calls it.
chunk_text(T, size, overlap) == ChunkResult(ChunkLoop(ChunkLoopInit, T, size, overlap).chunks, T)

\* ------------------------------------------------------------------------
\* The file system seen by RAG.ingest
\* ------------------------------------------------------------------------
\* A path below the ingested folder, as pathlib splits its name.
GuideMd   == [stem |-> "guide",  suffix |-> ".md"]
FaqTxt    == [stem |-> "faq",    suffix |-> ".TXT"]
ManualPdf == [stem |-> "manual", suffix |-> ".pdf"]
OldMd     == [stem |-> "old",    suffix |-> ".md"]     \* a directory named old.md

RelPaths == {GuideMd, FaqTxt, ManualPdf, OldMd}
Directories == {OldMd}

\* The order in which path.rglob("*") yields the entries.
RglobOrder == <<ManualPdf, GuideMd, OldMd, FaqTxt>>

\* What a supported file can hold.
FileTexts == {<<"a">>, <<"a", "a", "a">>}

\* The folder_path arguments: a path that does not exist, a regular file, the
\* directory docs, and a second directory archive that holds one file guide.md.
FolderArgs == {"missing", "notes.txt", "docs", "archive"}

\* What archive/guide.md holds.
ArchiveGuideText == <<"a", "a", "a">>

\* path.exists()
PathExists(folder) == folder \in {"notes.txt", "docs", "archive"}

\* path.is_dir()
PathIsDirAlways(folder) == TRUE

PathIsDir(folder) == folder \in {"docs", "archive"}

\* file_path.is_file()
IsFile(p) == p \notin Directories

\* str.lower() on the suffixes that occur
Lower(s) ==
    CASE s = ".TXT" -> ".txt"
      [] s = ".MD"  -> ".md"
      [] s = ".PDF" -> ".pdf"
      [] OTHER      -> s

SUPPORTED_EXTENSIONS == {".txt", ".md"}

\* str(relative_path), and file_path.name for an entry directly in the folder
RelStr(p) == p.stem \o p.suffix

\* The extension is one of .txt, .md in any letter case.
HasSupportedSuffix(p) == p.suffix \in {".txt", ".TXT", ".md", ".MD"}

\* RAG._validate_file: (is_valid, error_message)
ValidateFileAnyExtension(p) ==
    IF ~IsFile(p) THEN [valid |-> FALSE, error |-> "Not a file"]
    ELSE [valid |-> TRUE, error |-> "None"]

ValidateFile(p) ==
    IF ~IsFile(p) THEN [valid |-> FALSE, error |-> "Not a file"]
    ELSE IF Lower(p.suffix) \notin SUPPORTED_EXTENSIONS
         THEN [valid |-> FALSE, error |-> "Unsupported file type"]
         ELSE [valid |-> TRUE, error |-> "None"]

\* ------------------------------------------------------------------------
\* The vector index and the embedding model
\* ------------------------------------------------------------------------
NoName == "None"                 \* collection_name was not given
CollectionNames == {"kb"}

\* Embedding.embed_documents: one vector per text, in order.
EmbedOne(chunk) == <<"vec", chunk>>
EmbedDocuments(cs) == [k \in 1..Len(cs) |-> EmbedOne(cs[k])]

\* ids = [f"{relative_path}_{j}" for j in range(len(chunks))]
MakeIdPerRun(p, j) == RelStr(p) \o "_" \o ToString(j) \o "#" \o ToString(run)

MakeId(p, j) == RelStr(p) \o "_" \o ToString(j)

MakeMetadata(p, j, n) ==
    [filename |-> RelStr(p), filepath |-> RelStr(p), chunk_index |-> j, total_chunks |-> n]

\* The records handed to collection.add for one file, keyed by id.
NewRecords(p, cs, embs) ==
    LET ids == {MakeId(p, j) : j \in 0..(Len(cs) - 1)}
        ix(id) == CHOOSE j \in 0..(Len(cs) - 1) : MakeId(p, j) = id
    IN  [id \in ids |-> [document  |-> cs[ix(id) + 1],
                         embedding |-> embs[ix(id) + 1],
                         metadata  |-> MakeMetadata(p, ix(id), Len(cs))]]

\* collection.add: a record whose id is already in the collection is left as it is.
CollectionAdd(recs, new) ==
    [id \in (DOMAIN recs) \cup (DOMAIN new) |->
        IF id \in DOMAIN recs THEN recs[id] ELSE new[id]]

NoRecords == [id \in {} |-> 0]

\* What an ingest call has returned: nothing yet, or Python's None.
Pending == [kind |-> "pending"]
NoneValue == [kind |-> "None"]

\* No ingest call has finished yet.
NoRun == [valid |-> FALSE]

\* Fixed-point numbers: distances, confidences and thresholds are counted in tenths.
One == 10

\* min_distance = 1.0
InitialMinDistanceZero == One - One

InitialMinDistance == One

\* CONFIDENCE_THRESHOLD and UNCERTAIN_DISTANCE_THRESHOLD when the environment sets neither.
DEFAULT_CONFIDENCE_THRESHOLD == 5
DEFAULT_UNCERTAIN_DISTANCE_THRESHOLD == 8

\* The threads that construct Embedding objects.
Threads == {1, 2}

\* No Embedding has been constructed: the class-level cache is empty.
NoModel == [id |-> "none", load |-> 0]

EmbedIdle ==
    /\ model_cache = [name \in {} |-> NoModel]
    /\ loads = [name \in {} |-> 0]
    /\ constructions = 0
    /\ epc = [th \in Threads |-> "idle"]
    /\ ename = [th \in Threads |-> "none"]
    /\ emodel = [th \in Threads |-> NoModel]

\* No command has been given.
NoCommand == [op |-> "none", namespace |-> <<>>, found |-> FALSE]

CliIdle ==
    /\ cli_typed = <<>>
    /\ cli_collections = {}
    /\ cli_ingest_ns = <<>>
    /\ cli_last = NoCommand

\* A task that runs ingest starts with no cancellation pending.
CancelIdle ==
    /\ cancel_requested = FALSE
    /\ cancel_at = 0

\* The locals of Agent.message and RAG.search as a call finds them.
QueryLocalsInit ==
    /\ results = <<>>
    /\ search_exc = "none"
    /\ search_outcome = "none"
    /\ references = <<>>
    /\ context_docs = <<>>
    /\ retrieved_chunks = <<>>
    /\ confidence = 0
    /\ min_distance = InitialMinDistance
    /\ is_uncertain = FALSE
    /\ escalated = FALSE
    /\ system_prompt = [kind |-> "none"]
    /\ completions = <<>>
    /\ gen_outcome = "none"
    /\ response = ""
    /\ log = <<>>
    /\ msg_returned = Pending

\* The state of the query path while nothing is asked.
QueryIdle ==
    /\ client = FALSE
    /\ confidence_threshold = DEFAULT_CONFIDENCE_THRESHOLD
    /\ uncertain_distance_threshold = DEFAULT_UNCERTAIN_DISTANCE_THRESHOLD
    /\ qpc = "idle"
    /\ caller = "agent"
    /\ asked = 0
    /\ QueryLocalsInit

\* The state of everything but the chunker, while only the chunker runs.
IngestIdle ==
    /\ QueryIdle
    /\ fs_present = {}
    /\ fs_content = [p \in {} |-> <<>>]
    /\ collection_name = NoName
    /\ rag_collection = NoName
    /\ index = [n \in {} |-> NoRecords]
    /\ ipc = "idle"
    /\ folder_path = "docs"
    /\ progress_callback = FALSE
    /\ text_files = <<>>
    /\ i = 0
    /\ content = <<>>
    /\ chunks = <<>>
    /\ embeddings = <<>>
    /\ total_chunks = 0
    /\ raised = "none"
    /\ progress = <<>>
    /\ reads = <<>>
    /\ file_status = <<>>
    /\ run = 0
    /\ last_run = NoRun
    /\ prev_run = NoRun
    /\ returned = Pending
    /\ id_sources = [id \in {} |-> {}]
    /\ CancelIdle

\* ------------------------------------------------------------------------
\* The chunker, one loop iteration at a time
\* ------------------------------------------------------------------------
ChunkInit ==
    /\ env_chunk_size \in CfgRange
    /\ env_chunk_overlap \in CfgRange
    /\ text \in Texts
    /\ chunk_size = 0
    /\ chunk_overlap = 0
    /\ ck = ChunkLoopInit
    /\ cpc = "new"
    /\ result = <<>>
    /\ result_starts = <<>>
    /\ IngestIdle
    /\ CliIdle
    /\ EmbedIdle

\* RAG.__init__: the configuration is taken from the environment as it is.
RAGInit ==
    /\ cpc = "new"
    /\ chunk_size' = env_chunk_size
    /\ chunk_overlap' = env_chunk_overlap
    /\ cpc' = "ready"
    /\ UNCHANGED <<env_chunk_size, env_chunk_overlap, text, ck, result, result_starts>>
    /\ UNCHANGED <<fs_vars, rag_vars, ingest_vars>>
    /\ UNCHANGED query_vars
    /\ UNCHANGED <<cli_vars, embed_vars>>

\* _chunk_text is entered: chunks = [], start = 0.
ChunkBegin ==
    /\ cpc = "ready"
    /\ ck' = ChunkLoopInit
    /\ cpc' = "loop"
    /\ UNCHANGED <<env_chunk_size, env_chunk_overlap, text, result, result_starts>>
    /\ UNCHANGED <<config_vars, fs_vars, rag_vars, ingest_vars>>
    /\ UNCHANGED query_vars
    /\ UNCHANGED <<cli_vars, embed_vars>>

\* One pass through the body of the while loop.
ChunkStep ==
    /\ cpc = "loop"
    /\ ChunkLoopRuns(ck, text)
    /\ ck' = ChunkIterate(ck, text, chunk_size, chunk_overlap)
    /\ UNCHANGED <<env_chunk_size, env_chunk_overlap, text, cpc, result, result_starts>>
    /\ UNCHANGED <<config_vars, fs_vars, rag_vars, ingest_vars>>
    /\ UNCHANGED query_vars
    /\ UNCHANGED <<cli_vars, embed_vars>>

\* The loop is over (condition false or break): the return statement.
ChunkReturn ==
    /\ cpc = "loop"
    /\ ~ChunkLoopRuns(ck, text)
    /\ result' = ChunkResult(ck.chunks, text)
    /\ result_starts' = IF ck.chunks /= <<>> THEN ck.starts ELSE <<0>>
    /\ cpc' = "done"
    /\ UNCHANGED <<env_chunk_size, env_chunk_overlap, text, ck>>
    /\ UNCHANGED <<config_vars, fs_vars, rag_vars, ingest_vars>>
    /\ UNCHANGED query_vars
    /\ UNCHANGED <<cli_vars, embed_vars>>

ChunkNext == RAGInit \/ ChunkBegin \/ ChunkStep \/ ChunkReturn

SpecChunk == ChunkInit /\ [][ChunkNext]_vars

\* The interpreter goes on with the call as long as there is a next statement.
SpecChunkFair == SpecChunk /\ WF_vars(ChunkNext)

\* ------------------------------------------------------------------------
\* Properties of the chunker
\* ------------------------------------------------------------------------
ValidConfig == chunk_size > 0 /\ 0 <= chunk_overlap /\ chunk_overlap < chunk_size

Offsets == 0..(Len(text) - 1)

\* Offset off lies in the span of some returned chunk.
Covered(off) ==
    \E k \in 1..Len(result) :
        result_starts[k] <= off /\ off < result_starts[k] + Len(result[k])

IsBlank(s) == \A k \in 1..Len(s) : s[k] \in Whitespace

\* C1 as stated: with a valid configuration the spans of the returned chunks
\* cover every offset of the text.
C1_AllOffsetsCovered ==
    (cpc = "done" /\ ValidConfig) => \A off \in Offsets : Covered(off)

\* C1 (amended): with a valid configuration the spans of the returned chunks
\* cover every offset that holds a non-whitespace character; an offset missing
\* from all returned chunks lies only in whitespace-only windows, which are dropped.
C1_NonBlankOffsetsCovered ==
    (cpc = "done" /\ ValidConfig) =>
        \A off \in Offsets : text[off + 1] \notin Whitespace => Covered(off)

C1_Witness ==
    /\ cpc = "done" /\ ValidConfig
    /\ Len(result) >= 2
    /\ chunk_overlap > 0
    /\ \E off \in Offsets : ~Covered(off)

\* C2: a text no longer than chunk_size (valid configuration) comes back as
\* exactly one chunk, equal to the text.
C2_ShortTextOneChunk ==
    (cpc = "done" /\ ValidConfig /\ Len(text) <= chunk_size) => result = <<text>>

\* C3: for a non-empty text and any configuration the returned list is not
\* empty, and when every window the loop looked at was empty or whitespace-only
\* the returned list is the single-element list holding the text.
C3_NeverEmpty ==
    (cpc = "done" /\ text /= <<>>) =>
        /\ result /= <<>>
        /\ (\A k \in 1..Len(ck.windows) : IsBlank(ck.windows[k])) => result = <<text>>

C3_Witness ==
    /\ cpc = "done" /\ text /= <<>>
    /\ ck.windows /= <<>>
    /\ \A k \in 1..Len(ck.windows) : IsBlank(ck.windows[k])
    /\ result = <<text>>

\* C4: chunking only ever runs with chunk_size > 0 and 0 <= chunk_overlap <
\* chunk_size (any other configuration was rejected or clamped beforehand).
C4_ChunkingOnlyWithValidConfig ==
    cpc \in {"loop", "done"} => ValidConfig

\* ------------------------------------------------------------------------
\* RAG.ingest, one stage at a time
\* ------------------------------------------------------------------------
\* The configurations ingest is run with (CHUNK_SIZE, CHUNK_OVERLAP).
IngestConfigs == {<<2, 0>>, <<2, 1>>}

IngestInit ==
    /\ \E cfg \in IngestConfigs : env_chunk_size = cfg[1] /\ env_chunk_overlap = cfg[2]
    /\ chunk_size = env_chunk_size
    /\ chunk_overlap = env_chunk_overlap
    /\ text = <<>>
    /\ ck = ChunkLoopInit
    /\ cpc = "ready"
    /\ result = <<>>
    /\ result_starts = <<>>
    /\ QueryIdle
    /\ fs_present \in SUBSET RelPaths
    /\ fs_content \in [{p \in fs_present : IsFile(p)} -> FileTexts]
    /\ \A p \in DOMAIN fs_content : ~HasSupportedSuffix(p) => fs_content[p] = <<"a">>
    /\ collection_name \in CollectionNames \cup {NoName}
    /\ rag_collection = NoName
    /\ index = [n \in {} |-> NoRecords]
    /\ ipc = "idle"
    /\ folder_path = "docs"
    /\ progress_callback \in BOOLEAN
    /\ text_files = <<>>
    /\ i = 0
    /\ content = <<>>
    /\ chunks = <<>>
    /\ embeddings = <<>>
    /\ total_chunks = 0
    /\ raised = "none"
    /\ progress = <<>>
    /\ reads = <<>>
    /\ file_status = <<>>
    /\ run = 0
    /\ last_run = NoRun
    /\ prev_run = NoRun
    /\ returned = Pending
    /\ id_sources = [id \in {} |-> {}]
    /\ CancelIdle
    /\ CliIdle
    /\ EmbedIdle

\* progress_callback(current, total, filename, status); the number or reason a
\* status text carries is kept in detail.
Call(current, total, filename, status, detail) ==
    [current |-> current, total |-> total, filename |-> filename,
     status |-> status, detail |-> detail]

\* if progress_callback: progress_callback(...), for a sequence of calls
Report(calls) == IF progress_callback THEN progress \o calls ELSE progress

\* The records of the collection the RAG object is bound to, in an index.
RecordsIn(idx) == IF collection_name \in DOMAIN idx THEN idx[collection_name] ELSE NoRecords

\* What is remembered of a finished ingest call.
RunSummary(idx, statuses, exc) ==
    [valid    |-> TRUE,
     folder   |-> folder_path,
     content  |-> fs_content,
     index    |-> idx,
     ids      |-> DOMAIN RecordsIn(idx),
     count    |-> Cardinality(DOMAIN RecordsIn(idx)),
     raised   |-> exc,
     statuses |-> statuses]

\* list(path.rglob("*"))
Rglob(folder) ==
    IF folder = "docs" THEN SelectSeq(RglobOrder, LAMBDA p : p \in fs_present)
    ELSE IF folder = "archive" THEN <<GuideMd>>
    ELSE <<>>

\* f.read() of a file below the folder
FileContent(folder, p) == IF folder = "docs" THEN fs_content[p] ELSE ArchiveGuideText

\* text_files, as the validation loop builds it
TextFiles(all_files) == SelectSeq(all_files, LAMBDA p : ValidateFile(p).valid)

\* rejected_files, as the validation loop builds it
RejectedFilesNone(all_files) == <<>>

RejectedFiles(all_files) ==
    SelectSeq(all_files, LAMBDA p : /\ ~ValidateFile(p).valid
                                    /\ ValidateFile(p).error /= "None"
                                    /\ IsFile(p))

\* The ingest call up to the two checks of the folder path.
IngestCall(folder) ==
    /\ ipc \in {"idle", "finished"}
    /\ run < MaxRuns
    /\ run' = run + 1
    /\ folder_path' = folder
    /\ text_files' = <<>>
    /\ i' = 0
    /\ content' = <<>>
    /\ chunks' = <<>>
    /\ embeddings' = <<>>
    /\ total_chunks' = 0
    /\ progress' = <<>>
    /\ reads' = <<>>
    /\ file_status' = <<>>
    /\ IF ~PathExists(folder)
       THEN /\ raised' = "Folder does not exist"
            /\ ipc' = "finished"
       ELSE IF ~PathIsDir(folder)
            THEN /\ raised' = "Path is not a directory"
                 /\ ipc' = "finished"
            ELSE /\ raised' = "none"
                 /\ ipc' = "get_collection"
    /\ prev_run' = last_run
    /\ returned' = Pending
    /\ UNCHANGED id_sources
    /\ last_run' = IF ipc' = "finished"
                   THEN [RunSummary(index, <<>>, raised') EXCEPT !.folder = folder]
                   ELSE last_run
    /\ UNCHANGED <<chunk_vars, config_vars, fs_vars, rag_vars, progress_callback>>
    /\ UNCHANGED query_vars
    /\ UNCHANGED <<cli_vars, embed_vars>>
    /\ cancel_requested' = FALSE
    /\ cancel_at' = 0

\* collection = self._get_collection(), the index answering.
GetCollection ==
    /\ ipc = "get_collection"
    /\ IF rag_collection /= NoName
       THEN /\ ipc' = "discover"
            /\ UNCHANGED <<rag_collection, index, raised, last_run>>
       ELSE IF collection_name = NoName
            THEN /\ raised' = "Collection name must be set"
                 /\ ipc' = "finished"
                 /\ last_run' = RunSummary(index, <<>>, raised')
                 /\ UNCHANGED <<rag_collection, index>>
            ELSE \* client.get_or_create_collection(name=self.collection_name, ...)
                 /\ index' = IF collection_name \in DOMAIN index THEN index
                             ELSE [n \in (DOMAIN index) \cup {collection_name} |->
                                      IF n \in DOMAIN index THEN index[n] ELSE NoRecords]
                 /\ rag_collection' = collection_name
                 /\ ipc' = "discover"
                 /\ UNCHANGED <<raised, last_run>>
    /\ UNCHANGED <<chunk_vars, config_vars, fs_vars, collection_name>>
    /\ UNCHANGED <<folder_path, progress_callback, text_files, i, content, chunks,
                   embeddings, total_chunks, progress, reads, file_status, run, prev_run>>
    /\ UNCHANGED <<returned, id_sources>>
    /\ UNCHANGED query_vars
    /\ UNCHANGED <<cli_vars, embed_vars>>
    /\ UNCHANGED cancel_vars

\* collection = self._get_collection(), the index not answering: the exception
\* of get_or_create_collection leaves ingest.
GetCollectionUnreachable ==
    /\ ipc = "get_collection"
    /\ rag_collection = NoName
    /\ collection_name /= NoName
    /\ raised' = "Index unreachable"
    /\ ipc' = "finished"
    /\ last_run' = RunSummary(index, <<>>, raised')
    /\ UNCHANGED <<chunk_vars, config_vars, fs_vars, rag_vars>>
    /\ UNCHANGED <<folder_path, progress_callback, text_files, i, content, chunks,
                   embeddings, total_chunks, progress, reads, file_status, run, prev_run>>
    /\ UNCHANGED <<returned, id_sources>>
    /\ UNCHANGED query_vars
    /\ UNCHANGED <<cli_vars, embed_vars>>
    /\ UNCHANGED cancel_vars

\* Find the supported files, report the rejected ones, stop if none is supported.
Discover ==
    /\ ipc = "discover"
    /\ LET all_files      == Rglob(folder_path)
           found          == TextFiles(all_files)
           rejected_files == RejectedFiles(all_files)
       IN  /\ progress' = Report([k \in 1..Len(rejected_files) |->
                                    Call(0, Len(found), RelStr(rejected_files[k]), "REJECTED",
                                         ValidateFile(rejected_files[k]).error)])
           /\ IF found = <<>>
              THEN /\ raised' = "No supported files"
                   /\ ipc' = "finished"
                   /\ last_run' = RunSummary(index, <<>>, raised')
                   /\ UNCHANGED <<text_files, i>>
              ELSE /\ text_files' = found
                   /\ i' = 1
                   /\ ipc' = "reading"
                   /\ UNCHANGED <<raised, last_run>>
    /\ UNCHANGED <<chunk_vars, config_vars, fs_vars, rag_vars>>
    /\ UNCHANGED <<folder_path, progress_callback, content, chunks, embeddings,
                   total_chunks, reads, file_status, run, prev_run>>
    /\ UNCHANGED <<returned, id_sources>>
    /\ UNCHANGED query_vars
    /\ UNCHANGED <<cli_vars, embed_vars>>
    /\ UNCHANGED cancel_vars

TotalFiles == Len(text_files)
CurrentFile == text_files[i]

\* Where the for loop goes after the body ended normally.
AfterFileStopsEarly(idx, total) == "complete"

AfterFile(idx, total) == IF idx < total THEN "reading" ELSE "complete"

\* Where the for loop goes after the except clause handled an exception.
OnFileErrorAbort(idx, total) == "complete"

OnFileError(idx, total) == IF idx < total THEN "reading" ELSE "complete"

\* The except clause of the loop body: report ERROR, go on with the next file.
HandleFileError(calls_so_far, reason) ==
    /\ progress' = Report(calls_so_far \o
                          <<Call(i, TotalFiles, RelStr(CurrentFile), "ERROR", reason)>>)
    /\ file_status' = Append(file_status, [file |-> CurrentFile, status |-> "error", n |-> 0])
    /\ ipc' = OnFileError(i, TotalFiles)
    /\ i' = IF ipc' = "reading" THEN i + 1 ELSE i

\* "Reading..." and open/read of the file.
FileRead ==
    /\ ipc = "reading"
    /\ progress' = Report(<<Call(i, TotalFiles, RelStr(CurrentFile), "Reading", 0)>>)
    /\ reads' = Append(reads, CurrentFile)
    /\ content' = FileContent(folder_path, CurrentFile)
    /\ ipc' = "chunking"
    /\ UNCHANGED <<chunk_vars, config_vars, fs_vars, rag_vars>>
    /\ UNCHANGED <<folder_path, progress_callback, text_files, i, chunks, embeddings,
                   total_chunks, raised, file_status, run, last_run, prev_run>>
    /\ UNCHANGED <<returned, id_sources>>
    /\ UNCHANGED query_vars
    /\ UNCHANGED <<cli_vars, embed_vars>>
    /\ UNCHANGED cancel_vars

\* "Reading..." and open/read raising (unreadable file, undecodable bytes).
FileReadError ==
    /\ ipc = "reading"
    /\ reads' = Append(reads, CurrentFile)
    /\ HandleFileError(<<Call(i, TotalFiles, RelStr(CurrentFile), "Reading", 0)>>, "read")
    /\ UNCHANGED <<chunk_vars, config_vars, fs_vars, rag_vars>>
    /\ UNCHANGED <<folder_path, progress_callback, text_files, content, chunks, embeddings,
                   total_chunks, raised, run, last_run, prev_run>>
    /\ UNCHANGED <<returned, id_sources>>
    /\ UNCHANGED query_vars
    /\ UNCHANGED <<cli_vars, embed_vars>>
    /\ UNCHANGED cancel_vars

\* "Chunking..." and chunks = self._chunk_text(content).
FileChunk ==
    /\ ipc = "chunking"
    /\ progress' = Report(<<Call(i, TotalFiles, RelStr(CurrentFile), "Chunking", 0)>>)
    /\ chunks' = chunk_text(content, chunk_size, chunk_overlap)
    /\ ipc' = "embedding"
    /\ UNCHANGED <<chunk_vars, config_vars, fs_vars, rag_vars>>
    /\ UNCHANGED <<folder_path, progress_callback, text_files, i, content, embeddings,
                   total_chunks, raised, reads, file_status, run, last_run, prev_run>>
    /\ UNCHANGED <<returned, id_sources>>
    /\ UNCHANGED query_vars
    /\ UNCHANGED <<cli_vars, embed_vars>>
    /\ UNCHANGED cancel_vars

\* "Embedding N chunks..." and embeddings = self.embedding.embed_documents(chunks).
FileEmbed ==
    /\ ipc = "embedding"
    /\ progress' = Report(<<Call(i, TotalFiles, RelStr(CurrentFile), "Embedding", Len(chunks))>>)
    /\ embeddings' = EmbedDocuments(chunks)
    /\ ipc' = "saving"
    /\ UNCHANGED <<chunk_vars, config_vars, fs_vars, rag_vars>>
    /\ UNCHANGED <<folder_path, progress_callback, text_files, i, content, chunks,
                   total_chunks, raised, reads, file_status, run, last_run, prev_run>>
    /\ UNCHANGED <<returned, id_sources>>
    /\ UNCHANGED query_vars
    /\ UNCHANGED <<cli_vars, embed_vars>>
    /\ UNCHANGED cancel_vars

\* "Embedding N chunks..." and embed_documents raising.
FileEmbedError ==
    /\ ipc = "embedding"
    /\ HandleFileError(<<Call(i, TotalFiles, RelStr(CurrentFile), "Embedding", Len(chunks))>>,
                       "embed")
    /\ UNCHANGED <<chunk_vars, config_vars, fs_vars, rag_vars>>
    /\ UNCHANGED <<folder_path, progress_callback, text_files, content, chunks, embeddings,
                   total_chunks, raised, reads, run, last_run, prev_run>>
    /\ UNCHANGED <<returned, id_sources>>
    /\ UNCHANGED query_vars
    /\ UNCHANGED <<cli_vars, embed_vars>>
    /\ UNCHANGED cancel_vars

\* total_chunks += len(chunks)
TotalAfterSaveCountsFiles(total, cs) == total + 1

TotalAfterSave(total, cs) == total + Len(cs)

\* "Saving to ChromaDB...", collection.add, total_chunks += len(chunks), "Done".
SaveFile ==
    /\ ipc = "saving"
    /\ index' = [index EXCEPT ![rag_collection] =
                    CollectionAdd(@, NewRecords(CurrentFile, chunks, embeddings))]
    /\ total_chunks' = TotalAfterSave(total_chunks, chunks)
    /\ id_sources' = [id \in (DOMAIN id_sources) \cup (DOMAIN NewRecords(CurrentFile, chunks, embeddings)) |->
                          (IF id \in DOMAIN id_sources THEN id_sources[id] ELSE {}) \cup
                          (IF id \in DOMAIN NewRecords(CurrentFile, chunks, embeddings)
                           THEN {<<folder_path, CurrentFile>>} ELSE {})]
    /\ UNCHANGED returned
    /\ progress' = Report(<<Call(i, TotalFiles, RelStr(CurrentFile), "Saving", 0),
                            Call(i, TotalFiles, RelStr(CurrentFile), "Done", Len(chunks))>>)
    /\ file_status' = Append(file_status,
                             [file |-> CurrentFile, status |-> "done", n |-> Len(chunks)])
    /\ UNCHANGED <<chunk_vars, config_vars, fs_vars, collection_name, rag_collection>>
    /\ UNCHANGED <<folder_path, progress_callback, text_files, content, chunks, embeddings,
                   reads, run, prev_run>>
    /\ UNCHANGED query_vars
    /\ UNCHANGED <<cli_vars, embed_vars>>
    /\ UNCHANGED cancel_vars

\* The file is saved and await asyncio.sleep(0.1) returns: on to the next file.
FileSave ==
    /\ ~cancel_requested
    /\ SaveFile
    /\ ipc' = AfterFile(i, TotalFiles)
    /\ i' = IF ipc' = "reading" THEN i + 1 ELSE i
    /\ UNCHANGED <<raised, last_run>>

\* The file is saved and await asyncio.sleep(0.1) raises CancelledError, which
\* except Exception does not catch: it leaves ingest.
FileSaveCancelled ==
    /\ cancel_requested
    /\ SaveFile
    /\ raised' = "CancelledError"
    /\ ipc' = "finished"
    /\ last_run' = RunSummary(index', file_status', raised')
    /\ UNCHANGED i

\* Somebody cancels the task that runs ingest while a file is being processed.
\* The coroutine learns of it at its next await.
RequestCancel ==
    /\ ipc \in {"reading", "chunking", "embedding", "saving"}
    /\ ~cancel_requested
    /\ cancel_requested' = TRUE
    /\ cancel_at' = i
    /\ UNCHANGED <<chunk_vars, config_vars, fs_vars, rag_vars>>
    /\ UNCHANGED <<ipc, folder_path, progress_callback, text_files, i, content, chunks,
                   embeddings, total_chunks, raised, progress, reads, file_status, run,
                   last_run, prev_run, returned, id_sources>>
    /\ UNCHANGED query_vars
    /\ UNCHANGED <<cli_vars, embed_vars>>

\* "Saving to ChromaDB..." and collection.add raising: nothing of the file is stored.
FileSaveError ==
    /\ ipc = "saving"
    /\ HandleFileError(<<Call(i, TotalFiles, RelStr(CurrentFile), "Saving", 0)>>, "store")
    /\ UNCHANGED <<chunk_vars, config_vars, fs_vars, rag_vars>>
    /\ UNCHANGED <<folder_path, progress_callback, text_files, content, chunks, embeddings,
                   total_chunks, raised, reads, run, last_run, prev_run>>
    /\ UNCHANGED <<returned, id_sources>>
    /\ UNCHANGED query_vars
    /\ UNCHANGED <<cli_vars, embed_vars>>
    /\ UNCHANGED cancel_vars

\* ingest has no return statement: the call evaluates to None.
IngestReturnValue == NoneValue

\* The loop is over: "Completed! N total chunks ingested." and the return.
IngestComplete ==
    /\ ipc = "complete"
    /\ progress' = Report(<<Call(TotalFiles, TotalFiles, "", "Completed", total_chunks)>>)
    /\ ipc' = "finished"
    /\ last_run' = RunSummary(index, file_status, "none")
    /\ returned' = IngestReturnValue
    /\ UNCHANGED id_sources
    /\ UNCHANGED <<chunk_vars, config_vars, fs_vars, rag_vars>>
    /\ UNCHANGED <<folder_path, progress_callback, text_files, i, content, chunks, embeddings,
                   total_chunks, raised, reads, file_status, run, prev_run>>
    /\ UNCHANGED query_vars
    /\ UNCHANGED <<cli_vars, embed_vars>>
    /\ UNCHANGED cancel_vars

\* Between two ingest calls somebody rewrites a file of the folder.
EditFile(p, t) ==
    /\ ipc \in {"idle", "finished"}
    /\ run >= 1
    /\ run < MaxRuns
    /\ p \in DOMAIN fs_content
    /\ HasSupportedSuffix(p)
    /\ t /= fs_content[p]
    /\ fs_content' = [fs_content EXCEPT ![p] = t]
    /\ ipc' = "idle"
    /\ UNCHANGED <<chunk_vars, config_vars, fs_present, rag_vars>>
    /\ UNCHANGED <<folder_path, progress_callback, text_files, i, content, chunks, embeddings,
                   total_chunks, raised, progress, reads, file_status, run, last_run, prev_run>>
    /\ UNCHANGED <<returned, id_sources>>
    /\ UNCHANGED query_vars
    /\ UNCHANGED <<cli_vars, embed_vars>>
    /\ UNCHANGED cancel_vars

Next ==
    \/ \E folder \in FolderArgs : IngestCall(folder)
    \/ GetCollection
    \/ GetCollectionUnreachable
    \/ Discover
    \/ FileRead
    \/ FileReadError
    \/ FileChunk
    \/ FileEmbed
    \/ FileEmbedError
    \/ FileSave
    \/ FileSaveError
    \/ IngestComplete
    \/ \E p \in RelPaths, t \in FileTexts : EditFile(p, t)

Spec == IngestInit /\ [][Next]_vars

\* Ingest runs that somebody may cancel.
CancelNext ==
    \/ Next
    \/ RequestCancel
    \/ FileSaveCancelled

\* The runs start as those of Spec, with a progress callback and no overlap.
CancelInit ==
    /\ IngestInit
    /\ progress_callback = TRUE
    /\ env_chunk_overlap = 0

SpecCancel == CancelInit /\ [][CancelNext]_vars

\* ------------------------------------------------------------------------
\* Properties of ingest
\* ------------------------------------------------------------------------
\* The error class of the specification's taxonomy an exception of ingest belongs to.
ErrorKind(exc) ==
    CASE exc \in {"Folder does not exist", "Path is not a directory",
                  "Collection name must be set"} -> "InvalidInput"
      [] exc = "No supported files" -> "NoSupportedFiles"
      [] exc = "Index unreachable"  -> "IndexUnreachable"
      [] OTHER -> "none"

\* The regular files below docs with a supported extension.
SupportedPresent == {p \in fs_present : p \notin Directories /\ HasSupportedSuffix(p)}

\* The entries below docs that fail validation.
InvalidPresent == fs_present \ SupportedPresent

\* The current call got as far as reporting the rejected files.
Discovered ==
    \/ ipc \in {"reading", "chunking", "embedding", "saving", "complete"}
    \/ ipc = "finished" /\ raised \in {"none", "No supported files"}

Reported(status, name) ==
    \E k \in 1..Len(progress) : progress[k].status = status /\ progress[k].filename = name

Completed == \E k \in 1..Len(progress) : progress[k].status = "Completed"

Processed == {file_status[k].file : k \in 1..Len(file_status)}

\* The ids the collection held when the current ingest call began.
IdsBeforeCall == IF prev_run.valid THEN prev_run.ids ELSE {}

\* C5: ingest on a folder path that does not exist or is not a directory fails
\* with InvalidInput, no file having been opened and no progress callback made.
C5_BadFolderInvalidInput ==
    (ipc = "finished" /\ folder_path \in {"missing", "notes.txt"}) =>
        /\ ErrorKind(raised) = "InvalidInput"
        /\ reads = <<>>
        /\ progress = <<>>

C5_Witness ==
    /\ ipc = "finished" /\ folder_path = "notes.txt" /\ progress_callback
    /\ raised = "Path is not a directory"
    /\ SupportedPresent /= {}

\* C6 as stated: ingest on a directory without any file of a supported
\* extension fails with NoSupportedFiles, nothing read or stored, no "Completed!".
C6_NoSupportedFilesError ==
    (ipc = "finished" /\ folder_path = "docs" /\ SupportedPresent = {}) =>
        /\ ErrorKind(raised) = "NoSupportedFiles"
        /\ reads = <<>>
        /\ file_status = <<>>
        /\ DOMAIN RecordsIn(index) = IdsBeforeCall
        /\ ~Completed

\* C6 (amended): ingest on a directory without any file of a supported
\* extension never completes: it fails with NoSupportedFiles once the collection
\* has been obtained, and with the error of _get_collection before that (no
\* collection name, index unreachable); in every case nothing is read or stored
\* and no "Completed!" is issued.
C6_NoSupportedFilesFails ==
    (ipc = "finished" /\ folder_path = "docs" /\ SupportedPresent = {}) =>
        /\ raised /= "none"
        /\ rag_collection /= NoName => ErrorKind(raised) = "NoSupportedFiles"
        /\ rag_collection = NoName =>
               raised \in {"Collection name must be set", "Index unreachable"}
        /\ reads = <<>>
        /\ file_status = <<>>
        /\ DOMAIN RecordsIn(index) = IdsBeforeCall
        /\ ~Completed

C6_Witness ==
    /\ ipc = "finished" /\ folder_path = "docs" /\ SupportedPresent = {}
    /\ ManualPdf \in fs_present
    /\ progress_callback
    /\ raised = "No supported files"
    /\ Reported("REJECTED", RelStr(ManualPdf))

\* C7 as stated: every entry of the folder that fails validation (unsupported
\* extension, or not a regular file) is reported as REJECTED, and the supported
\* files are ingested all the same.
C7_EveryInvalidPathRejected ==
    /\ (Discovered /\ folder_path = "docs" /\ progress_callback) =>
           \A p \in InvalidPresent : Reported("REJECTED", RelStr(p))
    /\ (ipc = "finished" /\ folder_path = "docs"
           /\ ErrorKind(raised) \in {"none", "NoSupportedFiles"}) =>
           Processed = SupportedPresent

\* C7 (amended): every regular file of the folder with an unsupported extension
\* is reported as REJECTED; an entry that is not a regular file is skipped
\* without a report; and the supported files are ingested all the same.
C7_UnsupportedFilesRejected ==
    /\ (Discovered /\ folder_path = "docs" /\ progress_callback) =>
           \A p \in InvalidPresent :
               Reported("REJECTED", RelStr(p)) <=> p \notin Directories
    /\ (ipc = "finished" /\ folder_path = "docs"
           /\ ErrorKind(raised) \in {"none", "NoSupportedFiles"}) =>
           Processed = SupportedPresent

C7_Witness ==
    /\ ipc = "finished" /\ raised = "none" /\ progress_callback
    /\ folder_path = "docs"
    /\ {ManualPdf, OldMd, GuideMd} \subseteq fs_present
    /\ Reported("REJECTED", RelStr(ManualPdf))
    /\ Reported("Done", RelStr(GuideMd))

\* C8: a file whose reading, embedding or storing raises is reported with
\* ERROR, every later supported file is still processed, the records of the
\* files stored before stay in the collection, and ingest does not raise.
C8_FileErrorsIsolated ==
    /\ Len(file_status) <= Len(text_files)
    /\ \A k \in 1..Len(file_status) :
          /\ file_status[k].file = text_files[k]
          /\ (file_status[k].status = "error" /\ progress_callback) =>
                 \E c \in 1..Len(progress) :
                     /\ progress[c].status = "ERROR"
                     /\ progress[c].current = k
                     /\ progress[c].filename = RelStr(text_files[k])
          /\ file_status[k].status = "done" =>
                 \A j \in 0..(file_status[k].n - 1) :
                     MakeId(text_files[k], j) \in DOMAIN RecordsIn(index)
    /\ (ipc = "finished" /\ text_files /= <<>>) =>
          /\ raised = "none"
          /\ Len(file_status) = Len(text_files)

C8_Witness ==
    /\ ipc = "finished" /\ progress_callback
    /\ Len(text_files) = 2
    /\ file_status[1].status = "error"
    /\ file_status[2].status = "done"
    /\ Completed

AllDone(statuses) == \A k \in 1..Len(statuses) : statuses[k].status = "done"

\* The call before the current one ran over the folder as it is now and stored
\* every supported file.
PreviousRunSameFolder ==
    /\ prev_run.valid
    /\ prev_run.raised = "none"
    /\ AllDone(prev_run.statuses)
    /\ prev_run.folder = folder_path
    /\ prev_run.content = fs_content

\* C9: ingesting an unchanged folder again into the same collection leaves the
\* set of record ids and the count as the first (successful) run left them.
C9_ReingestIdempotent ==
    (ipc = "finished" /\ raised = "none" /\ PreviousRunSameFolder) =>
        /\ DOMAIN RecordsIn(index) = prev_run.ids
        /\ Cardinality(DOMAIN RecordsIn(index)) = prev_run.count

C9_Witness ==
    /\ ipc = "finished" /\ raised = "none" /\ PreviousRunSameFolder
    /\ AllDone(file_status)
    /\ Len(file_status) = 2
    /\ Cardinality(DOMAIN RecordsIn(index)) >= 3

\* C10: after an ingest call, every record whose id the call generated holds
\* the text, vector and metadata of the file as it is now (a record already
\* present under that id was overwritten).
C10_ReingestOverwrites ==
    (ipc = "finished" /\ raised = "none") =>
        \A k \in 1..Len(file_status) :
            file_status[k].status = "done" =>
                LET f  == file_status[k].file
                    cs == chunk_text(FileContent(folder_path, f), chunk_size, chunk_overlap)
                IN  \A j \in 0..(Len(cs) - 1) :
                        /\ MakeId(f, j) \in DOMAIN RecordsIn(index)
                        /\ RecordsIn(index)[MakeId(f, j)] =
                               [document  |-> cs[j + 1],
                                embedding |-> EmbedOne(cs[j + 1]),
                                metadata  |-> MakeMetadata(f, j, Len(cs))]

\* ------------------------------------------------------------------------
\* Properties of ingest: ids, return value, chunk count
\* ------------------------------------------------------------------------
\* C11: an id of the collection identifies one (source file, chunk index)
\* pair: whatever was ingested, from whichever folders, no id was generated for
\* chunks of two distinct source files.
C11_IdNamesOneSourceFile ==
    \A id \in DOMAIN id_sources : Cardinality(id_sources[id]) <= 1

\* C12: an ingest call that completes without raising returns the total number
\* of chunks, the number of its "Completed!" status.
C12_ReturnsTotalChunks ==
    (ipc = "finished" /\ raised = "none") =>
        /\ returned.kind = "int"
        /\ returned.value = total_chunks

\* Sum of the chunk counts of the files that ended Done.
RECURSIVE DoneChunks(_)
DoneChunks(statuses) ==
    IF statuses = <<>> THEN 0
    ELSE (IF Head(statuses).status = "done" THEN Head(statuses).n ELSE 0)
         + DoneChunks(Tail(statuses))

DEFAULT_CHUNK_SIZE == 1000
DEFAULT_CHUNK_OVERLAP == 200

\* The scenario of the specification: one file of 1500 characters under the
\* default configuration.
GuideScenarioChunks ==
    chunk_text([k \in 1..1500 |-> "a"], DEFAULT_CHUNK_SIZE, DEFAULT_CHUNK_OVERLAP)

\* C13: the count of the "Completed!" status is the sum of the chunk counts of
\* the files that reached Done, files that ended in ERROR or were rejected
\* adding nothing, and each Done file counts the chunks _chunk_text gave for it
\* (two for the 1500-character file under 1000/200).
C13_CompletedCountsDoneChunks ==
    /\ (ipc \in {"complete", "finished"} /\ raised = "none") =>
          /\ total_chunks = DoneChunks(file_status)
          /\ \A k \in 1..Len(file_status) :
                file_status[k].status = "done" =>
                    file_status[k].n =
                        Len(chunk_text(FileContent(folder_path, file_status[k].file),
                                       chunk_size, chunk_overlap))
    /\ (ipc = "finished" /\ raised = "none" /\ progress_callback) =>
          /\ progress[Len(progress)].status = "Completed"
          /\ progress[Len(progress)].detail = DoneChunks(file_status)
    /\ Len(GuideScenarioChunks) = 2

C13_Witness ==
    /\ ipc = "finished" /\ raised = "none" /\ progress_callback
    /\ folder_path = "docs"
    /\ ManualPdf \in fs_present
    /\ Len(file_status) = 2
    /\ file_status[1].status = "done" /\ file_status[1].n = 2
    /\ file_status[2].status = "error"
    /\ progress[Len(progress)].detail = 2

\* ------------------------------------------------------------------------
\* RAG.search and Agent.message
\* ------------------------------------------------------------------------
MaxAsked == 2        \* message / search calls in one behaviour

\* The distances the index can report, in tenths (cosine distance lies in 0..2,
\* floating point rounding can put it just outside).
DistanceValues == {0 - 1, 0, 4, 9, 15, 20}

\* The thresholds an Agent is configured with, in tenths.
ConfidenceThresholds == {3, DEFAULT_CONFIDENCE_THRESHOLD}
UncertainThresholds == {DEFAULT_UNCERTAIN_DISTANCE_THRESHOLD, 12}

\* n_results of the search calls
N_RESULTS == 5

\* The question asked.
UserInput == "how do I reset it?"

\* The records an ingest of guide.md with the given text leaves (CHUNK_SIZE 2, no overlap).
IngestedGuide(t) ==
    NewRecords(GuideMd, chunk_text(t, 2, 0), EmbedDocuments(chunk_text(t, 2, 0)))

\* The index as a query can find it: no collection, an empty one, an ingested one.
IndexStates ==
    {[n \in {} |-> NoRecords]} \cup {[n \in {"kb"} |-> NoRecords]}
        \cup {[n \in {"kb"} |-> IngestedGuide(t)] : t \in FileTexts}

QueryInit ==
    /\ env_chunk_size = 2
    /\ env_chunk_overlap = 0
    /\ chunk_size = env_chunk_size
    /\ chunk_overlap = env_chunk_overlap
    /\ text = <<>>
    /\ ck = ChunkLoopInit
    /\ cpc = "ready"
    /\ result = <<>>
    /\ result_starts = <<>>
    /\ fs_present = {}
    /\ fs_content = [p \in {} |-> <<>>]
    /\ collection_name \in CollectionNames \cup {NoName}
    /\ rag_collection = NoName
    /\ index \in IndexStates
    /\ ipc = "idle"
    /\ folder_path = "docs"
    /\ progress_callback = FALSE
    /\ text_files = <<>>
    /\ i = 0
    /\ content = <<>>
    /\ chunks = <<>>
    /\ embeddings = <<>>
    /\ total_chunks = 0
    /\ raised = "none"
    /\ progress = <<>>
    /\ reads = <<>>
    /\ file_status = <<>>
    /\ run = 0
    /\ last_run = NoRun
    /\ prev_run = NoRun
    /\ returned = Pending
    /\ id_sources = [id \in {} |-> {}]
    /\ CancelIdle
    /\ CliIdle
    /\ EmbedIdle
    /\ client \in BOOLEAN
    /\ confidence_threshold \in ConfidenceThresholds
    /\ uncertain_distance_threshold \in UncertainThresholds
    /\ qpc = "idle"
    /\ caller = "agent"
    /\ asked = 0
    /\ QueryLocalsInit

\* A new call may begin: nothing is running.
QueryAtRest == qpc \in {"idle", "done"} \/ (qpc = "searched" /\ caller = "direct")

\* The locals of a call, reset.
ResetQueryLocals ==
    /\ results' = <<>>
    /\ search_exc' = "none"
    /\ search_outcome' = "none"
    /\ references' = <<>>
    /\ context_docs' = <<>>
    /\ retrieved_chunks' = <<>>
    /\ confidence' = 0
    /\ min_distance' = InitialMinDistance
    /\ is_uncertain' = FALSE
    /\ escalated' = FALSE
    /\ system_prompt' = [kind |-> "none"]
    /\ completions' = <<>>
    /\ gen_outcome' = "none"
    /\ response' = ""
    /\ log' = <<>>
    /\ msg_returned' = Pending

\* Agent.message is called: the locals are set up and, with a RAG object and a
\* collection name, the search is entered.
MessageCall ==
    /\ QueryAtRest
    /\ asked < MaxAsked
    /\ asked' = asked + 1
    /\ caller' = "agent"
    /\ ResetQueryLocals
    /\ qpc' = IF collection_name /= NoName THEN "search" ELSE "assess"
    /\ UNCHANGED <<cli_vars, embed_vars>>
    /\ UNCHANGED <<chunk_vars, config_vars, fs_vars, rag_vars, ingest_vars, agent_vars>>

\* RAG.search is called on its own (search_command).
SearchCall ==
    /\ QueryAtRest
    /\ asked < MaxAsked
    /\ asked' = asked + 1
    /\ caller' = "direct"
    /\ ResetQueryLocals
    /\ qpc' = "search"
    /\ UNCHANGED <<cli_vars, embed_vars>>
    /\ UNCHANGED <<chunk_vars, config_vars, fs_vars, rag_vars, ingest_vars, agent_vars>>

\* if not self.collection_name: return []
SearchNoCollection ==
    /\ qpc = "search"
    /\ collection_name = NoName
    /\ results' = <<>>
    /\ search_exc' = "none"
    /\ search_outcome' = "no_collection"
    /\ qpc' = "searched"
    /\ UNCHANGED <<cli_vars, embed_vars>>
    /\ UNCHANGED <<chunk_vars, config_vars, fs_vars, rag_vars, ingest_vars, agent_vars>>
    /\ UNCHANGED <<caller, asked, message_vars>>

\* The index after self._get_collection() got its answer: get_or_create_collection
\* is called unless the RAG object already holds the collection.
IndexAfterGetCollection(idx) ==
    IF rag_collection /= NoName \/ collection_name \in DOMAIN idx THEN idx
    ELSE [n \in (DOMAIN idx) \cup {collection_name} |->
             IF n \in DOMAIN idx THEN idx[n] ELSE NoRecords]

RECURSIVE SetToSeq(_)
SetToSeq(S) ==
    IF S = {} THEN <<>>
    ELSE LET x == CHOOSE y \in S : TRUE IN <<x>> \o SetToSeq(S \ {x})

\* The distance lists a query can come back with: ascending.
AscendingDistances(n) ==
    {ds \in [1..n -> DistanceValues] : \A k \in 1..(n - 1) : ds[k] <= ds[k + 1]}

\* collection.query(...) and the formatting of its answer: at most n_results
\* matches, nearest first.
QueryAnswers(recs) ==
    LET ids == SetToSeq(DOMAIN recs)
        n   == Min(N_RESULTS, Len(ids))
    IN  {[k \in 1..n |-> [id       |-> ids[k],
                          document |-> recs[ids[k]].document,
                          metadata |-> recs[ids[k]].metadata,
                          distance |-> ds[k]]] : ds \in AscendingDistances(n)}

\* except Exception as e: ... return []
SearchExceptReraise(e) == [results |-> <<>>, exc |-> e]

SearchExcept(e) == [results |-> <<>>, exc |-> "none"]

\* The try block runs through: collection, query embedding, query, formatting.
SearchFound ==
    /\ qpc = "search"
    /\ collection_name /= NoName
    /\ index' = IndexAfterGetCollection(index)
    /\ rag_collection' = collection_name
    /\ results' \in QueryAnswers(index'[collection_name])
    /\ search_exc' = "none"
    /\ search_outcome' = "ok"
    /\ qpc' = "searched"
    /\ UNCHANGED <<cli_vars, embed_vars>>
    /\ UNCHANGED <<chunk_vars, config_vars, fs_vars, collection_name, ingest_vars, agent_vars>>
    /\ UNCHANGED <<caller, asked, message_vars>>

\* The index does not answer (get_or_create_collection or count raises).
SearchIndexUnreachable ==
    /\ qpc = "search"
    /\ collection_name /= NoName
    /\ results' = SearchExcept("Index unreachable").results
    /\ search_exc' = SearchExcept("Index unreachable").exc
    /\ search_outcome' = "unreachable"
    /\ qpc' = "searched"
    /\ UNCHANGED <<cli_vars, embed_vars>>
    /\ UNCHANGED <<chunk_vars, config_vars, fs_vars, rag_vars, ingest_vars, agent_vars>>
    /\ UNCHANGED <<caller, asked, message_vars>>

\* The collection is there, embed_query raises.
SearchEmbedFails ==
    /\ qpc = "search"
    /\ collection_name /= NoName
    /\ index' = IndexAfterGetCollection(index)
    /\ rag_collection' = collection_name
    /\ results' = SearchExcept("Embedding failed").results
    /\ search_exc' = SearchExcept("Embedding failed").exc
    /\ search_outcome' = "embed_failed"
    /\ qpc' = "searched"
    /\ UNCHANGED <<cli_vars, embed_vars>>
    /\ UNCHANGED <<chunk_vars, config_vars, fs_vars, collection_name, ingest_vars, agent_vars>>
    /\ UNCHANGED <<caller, asked, message_vars>>

\* doc_preview = document[:100] + "..." if len(document) > 100 else document
Preview(document) ==
    IF Len(document) > 100 THEN SubSeq(document, 1, 100) \o <<".", ".", ".">> ELSE document

\* title = f"{filename} (chunk {chunk_index + 1})"
Title(filename, chunk_index) == filename \o " (chunk " \o ToString(chunk_index + 1) \o ")"

\* f"[{filename} - chunk {chunk_index + 1}]\n{document}"
ContextDocZeroBased(filename, chunk_index, document) ==
    [tag |-> "[" \o filename \o " - chunk " \o ToString(chunk_index) \o "]",
     document |-> document]

ContextDoc(filename, chunk_index, document) ==
    [tag |-> "[" \o filename \o " - chunk " \o ToString(chunk_index + 1) \o "]",
     document |-> document]

\* The for loop over the results, for min_distance.
RECURSIVE MinDistanceOver(_, _)
MinDistanceOver(rs, m) ==
    IF rs = <<>> THEN m
    ELSE MinDistanceOver(Tail(rs), IF Head(rs).distance < m THEN Head(rs).distance ELSE m)

\* confidence = max(0.0, 1.0 - min_distance) if retrieved_chunks, else it stays 0.0
ConfidenceOf(retrieved, m) == IF retrieved /= <<>> THEN Max(0, One - m) ELSE 0

\* self.logger.log_query(...): the record appended
LogRecord(retrieved, conf, uncertain, esc, resp, err) ==
    [query |-> UserInput, collection |-> collection_name, retrieved_chunks |-> retrieved,
     confidence |-> conf, is_uncertain |-> uncertain, escalated |-> esc,
     response |-> resp, error |-> err]

\* The results are walked through (or the exception of the search is logged),
\* then confidence, is_uncertain and escalated are computed.
MessageAssess ==
    /\ caller = "agent"
    /\ qpc \in {"searched", "assess"}
    /\ IF search_exc /= "none"
       THEN /\ log' = Append(log, LogRecord(<<>>, 0, TRUE, TRUE, "", search_exc))
            /\ UNCHANGED <<references, context_docs, retrieved_chunks, min_distance>>
       ELSE /\ references' =
                 [k \in 1..Len(results) |->
                     <<Title(results[k].metadata.filename, results[k].metadata.chunk_index),
                       results[k].id, results[k].metadata.filename,
                       Preview(results[k].document)>>]
            /\ context_docs' =
                 [k \in 1..Len(results) |->
                     ContextDoc(results[k].metadata.filename, results[k].metadata.chunk_index,
                                results[k].document)]
            /\ retrieved_chunks' =
                 [k \in 1..Len(results) |->
                     [chunk_id |-> results[k].id, filename |-> results[k].metadata.filename,
                      distance |-> results[k].distance]]
            /\ min_distance' = MinDistanceOver(results, min_distance)
            /\ UNCHANGED log
    /\ confidence' = ConfidenceOf(retrieved_chunks', min_distance')
    /\ is_uncertain' = (min_distance' > uncertain_distance_threshold)
    /\ escalated' = (confidence' < confidence_threshold)
    /\ qpc' = "generate"
    /\ UNCHANGED <<cli_vars, embed_vars>>
    /\ UNCHANGED <<chunk_vars, config_vars, fs_vars, rag_vars, ingest_vars, agent_vars>>
    /\ UNCHANGED <<caller, asked, search_vars, system_prompt, completions, gen_outcome, response,
                   msg_returned>>

\* The system prompt: the documentation excerpts if there are any, else the
\* generic instruction.
SystemPrompt(docs) ==
    IF docs /= <<>> THEN [kind |-> "documentation", context |-> docs]
    ELSE [kind |-> "generic"]

\* The dictionary message returns.
MessageResult(resp) ==
    [response |-> resp, references |-> references, confidence |-> confidence,
     is_uncertain |-> is_uncertain, escalated |-> escalated]

\* if not self.client: the error text is the response; then the log and the return.
MessageNoClient ==
    /\ qpc = "generate"
    /\ ~client
    /\ gen_outcome' = "no_client"
    /\ response' = "Error: GITHUB_TOKEN not configured. Please set your GitHub token in .env file."
    /\ log' = Append(log, LogRecord(retrieved_chunks, confidence, is_uncertain, escalated,
                                    response', "None"))
    /\ msg_returned' = MessageResult(response')
    /\ qpc' = "done"
    /\ UNCHANGED <<cli_vars, embed_vars>>
    /\ UNCHANGED <<chunk_vars, config_vars, fs_vars, rag_vars, ingest_vars, agent_vars>>
    /\ UNCHANGED <<caller, asked, search_vars, references, context_docs, retrieved_chunks,
                   confidence, min_distance, is_uncertain, escalated, system_prompt,
                   completions>>

\* client.complete answers; then the log and the return.
MessageGenerate ==
    /\ qpc = "generate"
    /\ client
    /\ gen_outcome' = "ok"
    /\ system_prompt' = SystemPrompt(context_docs)
    /\ completions' = Append(completions, system_prompt')
    /\ response' = "answer"
    /\ log' = Append(log, LogRecord(retrieved_chunks, confidence, is_uncertain, escalated,
                                    response', "None"))
    /\ msg_returned' = MessageResult(response')
    /\ qpc' = "done"
    /\ UNCHANGED <<cli_vars, embed_vars>>
    /\ UNCHANGED <<chunk_vars, config_vars, fs_vars, rag_vars, ingest_vars, agent_vars>>
    /\ UNCHANGED <<caller, asked, search_vars, references, context_docs, retrieved_chunks,
                   confidence, min_distance, is_uncertain, escalated>>

\* client.complete raises: the error text is the response and a record with the
\* error is logged; then the log and the return.
MessageGenerateFailsResetting ==
    /\ qpc = "generate"
    /\ client
    /\ gen_outcome' = "failed"
    /\ system_prompt' = SystemPrompt(context_docs)
    /\ completions' = Append(completions, system_prompt')
    /\ response' = "Error generating response: LLM error"
    /\ confidence' = 0
    /\ escalated' = TRUE
    /\ log' = log \o <<LogRecord(retrieved_chunks, confidence', is_uncertain, escalated', "",
                                 "LLM error"),
                       LogRecord(retrieved_chunks, confidence', is_uncertain, escalated',
                                 response', "None")>>
    /\ msg_returned' = [MessageResult(response') EXCEPT !.confidence = 0, !.escalated = TRUE]
    /\ qpc' = "done"
    /\ UNCHANGED <<cli_vars, embed_vars>>
    /\ UNCHANGED <<chunk_vars, config_vars, fs_vars, rag_vars, ingest_vars, agent_vars>>
    /\ UNCHANGED <<caller, asked, search_vars, references, context_docs, retrieved_chunks,
                   min_distance, is_uncertain>>

MessageGenerateFails ==
    /\ qpc = "generate"
    /\ client
    /\ gen_outcome' = "failed"
    /\ system_prompt' = SystemPrompt(context_docs)
    /\ completions' = Append(completions, system_prompt')
    /\ response' = "Error generating response: LLM error"
    /\ log' = log \o <<LogRecord(retrieved_chunks, confidence, is_uncertain, escalated, "",
                                 "LLM error"),
                       LogRecord(retrieved_chunks, confidence, is_uncertain, escalated,
                                 response', "None")>>
    /\ msg_returned' = MessageResult(response')
    /\ qpc' = "done"
    /\ UNCHANGED <<cli_vars, embed_vars>>
    /\ UNCHANGED <<chunk_vars, config_vars, fs_vars, rag_vars, ingest_vars, agent_vars>>
    /\ UNCHANGED <<caller, asked, search_vars, references, context_docs, retrieved_chunks,
                   confidence, min_distance, is_uncertain, escalated>>

QueryNext ==
    \/ MessageCall
    \/ SearchCall
    \/ SearchNoCollection
    \/ SearchFound
    \/ SearchIndexUnreachable
    \/ SearchEmbedFails
    \/ MessageAssess
    \/ MessageNoClient
    \/ MessageGenerate
    \/ MessageGenerateFails

SpecQuery == QueryInit /\ [][QueryNext]_vars

\* ------------------------------------------------------------------------
\* Properties of search and message
\* ------------------------------------------------------------------------
SearchReturned == qpc \in {"searched", "generate", "done"} /\ search_outcome /= "none"

SearchFailed == search_outcome \in {"no_collection", "unreachable", "embed_failed"}

MessageReturned == caller = "agent" /\ qpc = "done"

\* C14: RAG.search never raises to its caller: without a collection name, or
\* when the index or the embedding call fails, it returns the empty list.
C14_SearchNeverRaises ==
    SearchReturned =>
        /\ search_exc = "none"
        /\ SearchFailed => results = <<>>

C14_Witness ==
    /\ qpc = "searched"
    /\ caller = "direct"
    /\ search_outcome = "unreachable"
    /\ results = <<>>

\* C15: a search call leaves the index as it was: the same collections, the
\* same records in each, also when the collection named does not exist yet.
C15_SearchLeavesIndexAlone == [][qpc = "search" => index' = index]_vars

\* The assessment of a list of matches, as stated: the least distance (1.0
\* without matches), the confidence clamped at 0, the two flags.
RECURSIVE LeastDistance(_)
LeastDistance(rs) ==
    IF Len(rs) = 1 THEN rs[1].distance
    ELSE Min(rs[1].distance, LeastDistance(Tail(rs)))

StatedMinDistance(rs) == IF rs = <<>> THEN One ELSE LeastDistance(rs)

\* C16: for every list of matches and every threshold configuration, message
\* computes min_distance = min(d_i) (1.0 when there is none), confidence =
\* max(0, 1 - min_distance), is_uncertain = min_distance > uncertain threshold,
\* escalated = confidence < confidence threshold, also when every d_i > 1.0.
C16_AssessmentFromLeastDistance ==
    MessageReturned =>
        /\ min_distance = StatedMinDistance(results)
        /\ confidence = Max(0, One - StatedMinDistance(results))
        /\ is_uncertain = (StatedMinDistance(results) > uncertain_distance_threshold)
        /\ escalated = (Max(0, One - StatedMinDistance(results)) < confidence_threshold)

\* C17: the confidence message returns lies in [0, 1], whatever the distances.
C17_ConfidenceInUnitRange ==
    MessageReturned =>
        /\ msg_returned.confidence >= 0
        /\ msg_returned.confidence <= One

DefaultThresholds ==
    /\ confidence_threshold = DEFAULT_CONFIDENCE_THRESHOLD
    /\ uncertain_distance_threshold = DEFAULT_UNCERTAIN_DISTANCE_THRESHOLD

\* C18: when retrieval yields no matches (empty collection, no collection
\* configured, index unreachable), message returns no references, confidence
\* 0.0, is_uncertain True and escalated True under the default thresholds.
C18_NoMatchesEscalates ==
    (MessageReturned /\ results = <<>> /\ DefaultThresholds) =>
        /\ msg_returned.references = <<>>
        /\ msg_returned.confidence = 0
        /\ msg_returned.is_uncertain = TRUE
        /\ msg_returned.escalated = TRUE

C18_Witness ==
    /\ MessageReturned
    /\ DefaultThresholds
    /\ search_outcome = "ok"
    /\ collection_name \in DOMAIN index
    /\ index[collection_name] = NoRecords
    /\ results = <<>>
    /\ msg_returned.escalated = TRUE

\* What message returns for the matches rs when the generation succeeds.
ReferencesOf(rs) ==
    [k \in 1..Len(rs) |->
        <<Title(rs[k].metadata.filename, rs[k].metadata.chunk_index), rs[k].id,
          rs[k].metadata.filename, Preview(rs[k].document)>>]

ResultOnSuccess(rs) ==
    LET m == MinDistanceOver(rs, InitialMinDistance)
        c == ConfidenceOf(rs, m)
    IN  [response |-> "answer", references |-> ReferencesOf(rs), confidence |-> c,
         is_uncertain |-> (m > uncertain_distance_threshold),
         escalated |-> (c < confidence_threshold)]

ErrorResponses ==
    {"Error: GITHUB_TOKEN not configured. Please set your GitHub token in .env file.",
     "Error generating response: LLM error"}

\* C19: when the generation raises or no client is configured, message returns
\* (it does not raise) an error text as response, and the references,
\* confidence and flags are those it returns for the same matches when the
\* generation succeeds.
C19_AssessmentIndependentOfGeneration ==
    MessageReturned =>
        /\ gen_outcome = "ok" => msg_returned = ResultOnSuccess(results)
        /\ gen_outcome \in {"failed", "no_client"} =>
              /\ msg_returned.response \in ErrorResponses
              /\ [msg_returned EXCEPT !.response = "answer"] = ResultOnSuccess(results)

C19_Witness ==
    /\ MessageReturned
    /\ gen_outcome = "failed"
    /\ results /= <<>>
    /\ msg_returned.confidence > 0
    /\ msg_returned.response = "Error generating response: LLM error"

ErrorLogged == \E k \in 1..Len(log) : log[k].error /= "None"

\* C20: whenever the retrieval fails (index unreachable) or the generation fails
\* during message, a record whose error field describes the failure is logged.
C20_FailuresLogged ==
    (MessageReturned /\ (search_outcome \in {"unreachable", "embed_failed"}
                            \/ gen_outcome = "failed"))
        => ErrorLogged

\* ------------------------------------------------------------------------
\* Properties of ingest: cancellation, progress trace, index contents
\* ------------------------------------------------------------------------
\* C23: ingest has a cancellation checkpoint between files: once cancellation
\* was requested while file number cancel_at was being processed, no later
\* file is read or stored.
C23_CancelStopsAfterCurrentFile ==
    cancel_requested =>
        /\ Len(reads) <= cancel_at
        /\ Len(file_status) <= cancel_at

\* The place of a progress call in the order of one run: the REJECTED
\* reports, then for file 1..total its stages, then Completed.
StageRank(status) ==
    CASE status = "Reading"   -> 1
      [] status = "Chunking"  -> 2
      [] status = "Embedding" -> 3
      [] status = "Saving"    -> 4
      [] status = "Done"      -> 5
      [] status = "ERROR"     -> 5
      [] OTHER                -> 0

CallRank(c) ==
    CASE c.status = "REJECTED"  -> 0
      [] c.status = "Completed" -> 6 * (c.total + 1)
      [] OTHER                  -> 6 * c.current + StageRank(c.status)

\* Call number k of the trace follows the call before it as the loop prescribes.
FollowsInOrder(trace, k) ==
    LET c == trace[k]
        first == k = 1 \/ trace[k - 1].status = "REJECTED"
        before == trace[k - 1]
        file_ended(d, idx) == d.current = idx /\ d.status \in {"Done", "ERROR"}
    IN  CASE c.status = "REJECTED" -> first
          [] c.status = "Reading" ->
                 /\ c.current \in 1..c.total
                 /\ IF c.current = 1 THEN first ELSE ~first /\ file_ended(before, c.current - 1)
          [] c.status \in {"Chunking", "Embedding", "Saving", "Done"} ->
                 /\ ~first
                 /\ before.current = c.current
                 /\ StageRank(before.status) = StageRank(c.status) - 1
          [] c.status = "ERROR" ->
                 /\ ~first
                 /\ before.current = c.current
                 /\ before.status \in {"Reading", "Chunking", "Embedding", "Saving"}
          [] c.status = "Completed" ->
                 /\ ~first
                 /\ c.current = c.total
                 /\ file_ended(before, c.total)
          [] OTHER -> FALSE

TraceShape(trace) ==
    /\ \A k \in 1..Len(trace) : FollowsInOrder(trace, k)
    /\ \A k \in 1..Len(trace) :
           trace[k].status \notin {"REJECTED", "Completed"} =>
               /\ trace[k].total = TotalFiles
               /\ trace[k].filename = RelStr(text_files[trace[k].current])
    /\ \A k \in 2..Len(trace) :
           \/ CallRank(trace[k - 1]) < CallRank(trace[k])
           \/ trace[k - 1].status = "REJECTED" /\ trace[k].status = "REJECTED"

CompletedCalls == {k \in 1..Len(progress) : progress[k].status = "Completed"}

EveryFileEnded ==
    \A idx \in 1..TotalFiles :
        \E k \in 1..Len(progress) :
            progress[k].current = idx /\ progress[k].status \in {"Done", "ERROR"}

\* C24 as stated: the trace of every run has the fixed shape and holds exactly
\* one Completed call, the last one.
C24_TraceShapeAlwaysCompleted ==
    (ipc = "finished" /\ progress_callback) =>
        /\ TraceShape(progress)
        /\ CompletedCalls = {Len(progress)}

\* C24: the REJECTED reports come first; then the files are handled one at a
\* time in index order, a processed file receiving Reading, Chunking,
\* Embedding, Saving, Done in that order with its own index (an ERROR ends the
\* file's sequence); a run that does not raise issues exactly one Completed
\* call, after every per-file call, and a run that raises issues none.
C24_TraceShape ==
    progress_callback =>
        /\ TraceShape(progress)
        /\ (ipc = "finished" /\ raised = "none") =>
              /\ CompletedCalls = {Len(progress)}
              /\ EveryFileEnded
        /\ (ipc = "finished" /\ raised /= "none") => CompletedCalls = {}

C24_Witness ==
    /\ ipc = "finished" /\ raised = "none" /\ progress_callback
    /\ folder_path = "docs"
    /\ Len(progress) = 9
    /\ progress[1].status = "REJECTED"
    /\ progress[2].status = "Reading" /\ progress[2].current = 1
    /\ progress[6].status = "Done" /\ progress[6].current = 1
    /\ progress[8].status = "ERROR" /\ progress[8].current = 2
    /\ progress[9].status = "Completed"

\* The records of a collection that carry the filepath of record id.
SameFile(recs, id) ==
    {x \in DOMAIN recs : recs[x].metadata.filepath = recs[id].metadata.filepath}

\* C29: after any sequence of ingests, the records of each source file have
\* chunk_index exactly 0..total_chunks-1 and all carry the same total_chunks.
C29_FileRecordsComplete ==
    \A n \in DOMAIN index :
        \A id \in DOMAIN index[n] :
            {index[n][x].metadata.chunk_index : x \in SameFile(index[n], id)}
                = 0..(index[n][id].metadata.total_chunks - 1)

\* The index as it was when the current ingest call began.
IndexBeforeCall == IF prev_run.valid THEN prev_run.index ELSE [n \in {} |-> NoRecords]

\* C30: an ingest call that fails with InvalidInput or NoSupportedFiles leaves
\* the index as it was: the same collections, the same records in each.
C30_FailedIngestLeavesIndexAlone ==
    (ipc = "finished" /\ ErrorKind(raised) \in {"InvalidInput", "NoSupportedFiles"}) =>
        index = IndexBeforeCall

\* ------------------------------------------------------------------------
\* Termination of the chunker
\* ------------------------------------------------------------------------
\* C26: _chunk_text terminates for every text and every integer chunk_size and
\* chunk_overlap; with chunk_overlap >= chunk_size the loop stops after the
\* first window.
C26_ChunkTextTerminates ==
    /\ []((cpc \in {"loop", "done"} /\ chunk_overlap >= chunk_size) => Len(ck.windows) <= 1)
    /\ (cpc = "loop") ~> (cpc = "done")

C26_Witness ==
    /\ cpc = "done"
    /\ chunk_overlap >= chunk_size
    /\ Len(text) >= 2
    /\ Len(ck.windows) = 1
    /\ ck.broke

\* ------------------------------------------------------------------------
\* The commands that take a collection name (cli.py)
\* ------------------------------------------------------------------------
MaxName == 2        \* longest collection name typed

\* The characters of a typed name: an upper case letter, a lower case letter,
\* a space, a hyphen, an underscore.
NameAlphabet == {"K", "b", " ", "-", "_"}

RECURSIVE NamesUpTo(_)
NamesUpTo(n) ==
    IF n = 0 THEN {<<>>}
    ELSE LET shorter == NamesUpTo(n - 1)
         IN  shorter \cup {Append(w, c) : w \in {v \in shorter : Len(v) = n - 1},
                                          c \in NameAlphabet}

TypedNames == NamesUpTo(MaxName) \ {<<>>}

\* str.lower() on one character
LowerChar(c) == IF c = "K" THEN "k" ELSE c

\* collection_name.replace(" ", "_").replace("-", "_").lower()
Sanitize(w) ==
    [k \in 1..Len(w) |-> LowerChar(IF w[k] \in {" ", "-"} THEN "_" ELSE w[k])]

\* The name as the command hands it to RAG(collection_name=...) and the client.
AsTyped(w) == w

NameForIngest(w) == Sanitize(w)
NameForSearch(w) == AsTyped(w)
NameForInfo(w) == AsTyped(w)
NameForClear(w) == AsTyped(w)

\* The chunker of a RAG object that is configured and not in use.
ChunkerIdle ==
    /\ env_chunk_size = 2
    /\ env_chunk_overlap = 0
    /\ chunk_size = env_chunk_size
    /\ chunk_overlap = env_chunk_overlap
    /\ text = <<>>
    /\ ck = ChunkLoopInit
    /\ cpc = "ready"
    /\ result = <<>>
    /\ result_starts = <<>>

\* The user has a name in mind; the index holds no collection.
CliInit ==
    /\ ChunkerIdle
    /\ IngestIdle
    /\ EmbedIdle
    /\ cli_typed \in TypedNames
    /\ cli_collections = {}
    /\ cli_ingest_ns = <<>>
    /\ cli_last = NoCommand

\* What stays as it is while commands are given.
CliFrame ==
    /\ UNCHANGED <<chunk_vars, config_vars, fs_vars, rag_vars, ingest_vars, query_vars>>
    /\ UNCHANGED embed_vars
    /\ UNCHANGED cli_typed

\* ingest_command: the name is sanitized, RAG(collection_name=...).ingest gets
\* or creates the collection of that name.
IngestCommand ==
    /\ cli_collections' = cli_collections \cup {NameForIngest(cli_typed)}
    /\ cli_ingest_ns' = NameForIngest(cli_typed)
    /\ cli_last' = [op |-> "ingest", namespace |-> NameForIngest(cli_typed),
                    found |-> NameForIngest(cli_typed) \in cli_collections]
    /\ CliFrame

\* search_command: RAG(collection_name=collection_name).search(query), which
\* gets or creates the collection of that name.
SearchCommand ==
    /\ cli_collections' = cli_collections \cup {NameForSearch(cli_typed)}
    /\ cli_last' = [op |-> "search", namespace |-> NameForSearch(cli_typed),
                    found |-> NameForSearch(cli_typed) \in cli_collections]
    /\ UNCHANGED cli_ingest_ns
    /\ CliFrame

\* collection_info_command with a name: client.get_collection(collection_name)
InfoCommand ==
    /\ cli_last' = [op |-> "info", namespace |-> NameForInfo(cli_typed),
                    found |-> NameForInfo(cli_typed) \in cli_collections]
    /\ UNCHANGED <<cli_collections, cli_ingest_ns>>
    /\ CliFrame

\* clear_collection_command, confirmed: get_collection, then delete_collection
\* if it exists.
ClearCommand ==
    /\ cli_collections' = cli_collections \ {NameForClear(cli_typed)}
    /\ cli_last' = [op |-> "clear", namespace |-> NameForClear(cli_typed),
                    found |-> NameForClear(cli_typed) \in cli_collections]
    /\ UNCHANGED cli_ingest_ns
    /\ CliFrame

\* clear_collection_command, not confirmed: nothing is asked of the index.
ClearDeclined ==
    /\ cli_last' = [op |-> "clear_declined", namespace |-> <<>>, found |-> FALSE]
    /\ UNCHANGED <<cli_collections, cli_ingest_ns>>
    /\ CliFrame

CliNext ==
    \/ IngestCommand
    \/ SearchCommand
    \/ InfoCommand
    \/ ClearCommand
    \/ ClearDeclined

SpecCli == CliInit /\ [][CliNext]_vars

\* C22: every command that takes a name uses the sanitized name as namespace
\* (spaces and hyphens replaced by underscore, lowercased), so the name given
\* at ingest resolves to the collection of the ingest when given to search,
\* info or clear.
C22_NameSanitizedEverywhere ==
    /\ cli_last.op \in {"ingest", "search", "info", "clear"} =>
           cli_last.namespace = Sanitize(cli_typed)
    /\ (cli_ingest_ns /= <<>> /\ cli_last.op \in {"search", "info", "clear"}) =>
           cli_last.namespace = cli_ingest_ns



\* ------------------------------------------------------------------------
\* Embedding.__init__ and the class-level model cache (embedding.py)
\* ------------------------------------------------------------------------
MaxConstructions == 3        \* Embedding(...) calls in one behaviour

\* The model identifiers constructions ask for.
ModelIds == {"BAAI/bge-small-en-v1.5", "BAAI/bge-base-en-v1.5"}

\* if model_name in Embedding._model_cache
CacheHitNever(cache, name) == FALSE

CacheHit(cache, name) == name \in DOMAIN cache

LoadsOf(name) == IF name \in DOMAIN loads THEN loads[name] ELSE 0

\* SentenceTransformer(model_name): a new model instance
NewModel(name) == [id |-> name, load |-> LoadsOf(name) + 1]

EmbedInit ==
    /\ ChunkerIdle
    /\ IngestIdle
    /\ CliIdle
    /\ EmbedIdle

EmbedFrame ==
    /\ UNCHANGED <<chunk_vars, config_vars, fs_vars, rag_vars, ingest_vars, query_vars>>
    /\ UNCHANGED cli_vars

\* Embedding(model_name) is called in thread th: self.model_name = model_name
EmbedCall(th, name) ==
    /\ epc[th] \in {"idle", "done"}
    /\ constructions < MaxConstructions
    /\ constructions' = constructions + 1
    /\ epc' = [epc EXCEPT ![th] = "check"]
    /\ ename' = [ename EXCEPT ![th] = name]
    /\ emodel' = [emodel EXCEPT ![th] = NoModel]
    /\ UNCHANGED <<model_cache, loads>>
    /\ EmbedFrame

\* The same call, made while no other construction is under way.
EmbedCallAlone(th, name) ==
    /\ \A other \in Threads \ {th} : epc[other] \in {"idle", "done"}
    /\ EmbedCall(th, name)

\* The name is in the cache: self.model = Embedding._model_cache[model_name]
EmbedUseCached(th) ==
    /\ epc[th] = "check"
    /\ CacheHit(model_cache, ename[th])
    /\ emodel' = [emodel EXCEPT ![th] = model_cache[ename[th]]]
    /\ epc' = [epc EXCEPT ![th] = "done"]
    /\ UNCHANGED <<model_cache, loads, constructions, ename>>
    /\ EmbedFrame

\* The name is not in the cache: the else branch is entered.
EmbedMiss(th) ==
    /\ epc[th] = "check"
    /\ ~CacheHit(model_cache, ename[th])
    /\ epc' = [epc EXCEPT ![th] = "load"]
    /\ UNCHANGED <<model_cache, loads, constructions, ename, emodel>>
    /\ EmbedFrame

\* self.model = SentenceTransformer(model_name)
EmbedLoad(th) ==
    /\ epc[th] = "load"
    /\ emodel' = [emodel EXCEPT ![th] = NewModel(ename[th])]
    /\ loads' = [name \in (DOMAIN loads) \cup {ename[th]} |->
                    IF name = ename[th] THEN LoadsOf(name) + 1 ELSE loads[name]]
    /\ epc' = [epc EXCEPT ![th] = "store"]
    /\ UNCHANGED <<model_cache, constructions, ename>>
    /\ EmbedFrame

\* SentenceTransformer(model_name) raises: the exception leaves __init__.
EmbedLoadFails(th) ==
    /\ epc[th] = "load"
    /\ epc' = [epc EXCEPT ![th] = "idle"]
    /\ UNCHANGED <<model_cache, loads, constructions, ename, emodel>>
    /\ EmbedFrame

\* Embedding._model_cache[model_name] = self.model
EmbedStore(th) ==
    /\ epc[th] = "store"
    /\ model_cache' = [name \in (DOMAIN model_cache) \cup {ename[th]} |->
                          IF name = ename[th] THEN emodel[th] ELSE model_cache[name]]
    /\ epc' = [epc EXCEPT ![th] = "done"]
    /\ UNCHANGED <<loads, constructions, ename, emodel>>
    /\ EmbedFrame

EmbedSteps ==
    \/ \E th \in Threads : EmbedUseCached(th)
    \/ \E th \in Threads : EmbedMiss(th)
    \/ \E th \in Threads : EmbedLoad(th)
    \/ \E th \in Threads : EmbedLoadFails(th)
    \/ \E th \in Threads : EmbedStore(th)

\* Constructions one after the other.
EmbedSeqNext ==
    \/ \E th \in Threads, name \in ModelIds : EmbedCallAlone(th, name)
    \/ EmbedSteps

SpecEmbedSeq == EmbedInit /\ [][EmbedSeqNext]_vars

\* Constructions in two threads at a time.
EmbedNext ==
    \/ \E th \in Threads, name \in ModelIds : EmbedCall(th, name)
    \/ EmbedSteps

SpecEmbed == EmbedInit /\ [][EmbedNext]_vars

\* C21: in any sequence of constructions the model of an identifier is loaded
\* at most once; a finished construction holds the cached instance of its own
\* identifier, never that of another.
C21_LoadedOncePerIdentifier ==
    /\ \A name \in DOMAIN loads : loads[name] <= 1
    /\ \A th \in Threads :
           epc[th] = "done" =>
               /\ ename[th] \in DOMAIN model_cache
               /\ emodel[th] = model_cache[ename[th]]
               /\ emodel[th].id = ename[th]

C21_Witness ==
    /\ constructions = 3
    /\ epc[1] = "done" /\ epc[2] = "done"
    /\ ename[1] = ename[2]
    /\ emodel[1] = emodel[2]
    /\ DOMAIN model_cache = ModelIds
    /\ \A name \in ModelIds : loads[name] = 1

\* C27: when two threads construct Embedding for the same identifier at the
\* same time, the model is loaded once and both objects share one instance.
C27_ConcurrentConstructionsShare ==
    /\ \A name \in DOMAIN loads : loads[name] <= 1
    /\ \A th \in Threads, other \in Threads :
           (epc[th] = "done" /\ epc[other] = "done" /\ ename[th] = ename[other]) =>
               emodel[th] = emodel[other]

\* ------------------------------------------------------------------------
\* Properties of message: the generation call and the log
\* ------------------------------------------------------------------------
\* A passage tagged with its file name and its 1-based position in the file.
TaggedPassage(match) ==
    [tag |-> "[" \o match.metadata.filename \o " - chunk "
                 \o ToString(match.metadata.chunk_index + 1) \o "]",
     document |-> match.document]

\* C25: with a client configured, message calls the generation exactly once,
\* also when the retrieval returns nothing or the index is unreachable; the
\* system prompt is the generic instruction iff there are no matches, and
\* otherwise holds every matched passage tagged with its file name and 1-based
\* chunk position.
C25_GeneratesOnceWithContext ==
    (MessageReturned /\ client) =>
        /\ Len(completions) = 1
        /\ (completions[1].kind = "generic") <=> (results = <<>>)
        /\ results /= <<>> =>
              /\ completions[1].kind = "documentation"
              /\ \A k \in 1..Len(results) :
                     \E j \in 1..Len(completions[1].context) :
                         completions[1].context[j] = TaggedPassage(results[k])

C25_Witness ==
    /\ MessageReturned
    /\ client
    /\ search_outcome = "unreachable"
    /\ Len(completions) = 1
    /\ completions[1].kind = "generic"
    /\ gen_outcome = "ok"

\* C28: each message call appends exactly one record to the log, whatever the
\* outcome.
C28_OneRecordPerMessage ==
    MessageReturned => Len(log) = 1

====
